---- MODULE Spec2Model ----
(***************************************************************************)
(* The in-memory record store of src/src/index.ts (createDatabase with its *)
(* two createObserver hubs, visit and selectBest) and the plain variant of *)
(* src/unnamed/part_000.                                                   *)
(*                                                                         *)
(* One top-level call of the program (set, get, onBeforeAdd, onAfterAdd,   *)
(* an unsubscribe handle, visit, selectBest) is one action.  The program   *)
(* is synchronous: a set runs its listeners inline, and a listener may     *)
(* call back into the store.  The whole call, nested calls included, is    *)
(* evaluated by the operators set / publish / Invoke on a machine state m, *)
(* and what happened during the call is written to the history `trace`.    *)
(*                                                                         *)
(* Beside the store behind pokemonDB.instance the model keeps the instance *)
(* of a second createDatabase() result (`other`), and the db of the plain  *)
(* variant (`plain`), which receives every set and get call in lockstep.   *)
(***************************************************************************)
EXTENDS Integers, Sequences, FiniteSets, TLC

VARIABLES
  db,                  \* InMemoryDatabase.db, the plain object {}
  beforeAddListeners,  \* the `listeners` array of the before hub
  afterAddListeners,   \* the `listeners` array of the after hub
  handles,             \* the unsubscribe closures returned so far
  invoked,             \* history: the closures that have been invoked
  nextReg,             \* history: per hub, the number of its next subscribe call
  trace,               \* history: what the last top-level call did
  last,                \* history: the last top-level call and its result
  scope,               \* the inputs this run draws its calls from
  other,               \* the instance of a second createDatabase() result
  plain                \* InMemoryDatabase.db of the variant without hubs, which
                       \* is given the same set and get calls

vars == <<db, beforeAddListeners, afterAddListeners, handles, invoked, nextReg, trace, last, scope, other, plain>>

-----------------------------------------------------------------------------
(* Bounds *)

\* subscribe calls made in one run (top-level and from listeners), both
\* hubs together
MaxSubs == 2

-----------------------------------------------------------------------------
(* JavaScript values *)

Undefined == [undefined |-> TRUE]
\* Object.prototype and its `constructor` property, the function Object
ObjectPrototype == [builtin |-> "Object.prototype"]
ObjectFunction == [builtin |-> "Object"]

\* record identifiers: an integer-like key, an ordinary key, a name every
\* plain object inherits, and the prototype accessor
Ids == {"1", "a", "constructor", "__proto__"}
\* keys get is called with: the identifiers and a field name of a record
Keys == Ids \cup {"id"}

\* (attack, defense) pairs
Stats == {<<-5, 0>>, <<10, 3>>, <<3, 10>>}

Pokemon == {[id |-> i, attack |-> s[1], defense |-> s[2]] : i \in Ids, s \in Stats}

\* the records of a second record type, kept in a store of their own
Trainer == {[id |-> "a", name |-> n] : n \in {"Ash", "Brock"}}

\* A run draws the records it writes and the listeners it registers from
\* one of four scopes: every identifier and no listener; two identifiers
\* and the listeners that change the hubs; one identifier and the
\* listeners that write or throw; one identifier, the listener that logs,
\* and a second store for a second record type.
Scopes == {"store", "hub", "reentry", "types"}
ScopeKeys(sc) ==
  CASE sc = "store" -> Keys
    [] sc = "hub" -> {"a", "constructor"}
    [] OTHER -> {"a"}
ScopeRecords(sc) ==
  CASE sc = "store" -> Pokemon
    [] sc = "hub" -> {[id |-> "a", attack |-> 10, defense |-> 3],
                      [id |-> "a", attack |-> 3, defense |-> 10],
                      [id |-> "constructor", attack |-> 10, defense |-> 3]}
    [] OTHER -> {[id |-> "a", attack |-> 10, defense |-> 3],
                 [id |-> "a", attack |-> 3, defense |-> 10]}
ScopeListeners(sc) ==
  CASE sc = "store" -> {}
    [] sc = "hub" -> {"log", "unsub", "sub"}
    [] sc = "reentry" -> {"log", "write", "throw"}
    [] sc = "types" -> {"log"}
\* what is written to, read from and registered on the second store
ScopeTrainers(sc) == IF sc = "types" THEN Trainer ELSE {}
ScopeTrainerKeys(sc) == IF sc = "types" THEN {"a"} ELSE {}
ScopeTrainerListeners(sc) == IF sc = "types" THEN {"log"} ELSE {}

IsRecord(v) == v \in Pokemon

\* a primitive string value
Str(s) == [string |-> s]

-----------------------------------------------------------------------------
(* The plain object behind the store: own properties in creation order and *)
(* a prototype.                                                            *)

EmptyObject ==
  [own |-> [k \in Ids \ {"__proto__"} |-> Undefined], order |-> <<>>, proto |-> ObjectPrototype]

HasOwn(o, k) == k \in DOMAIN o.own /\ o.own[k] # Undefined

\* o[k]: the prototype accessor, then own properties, then the prototype
\* chain (a record set as prototype, then Object.prototype)
PropGet(o, k) ==
  IF k = "__proto__" THEN o.proto
  ELSE IF HasOwn(o, k) THEN o.own[k]
  ELSE IF IsRecord(o.proto) /\ k = "id" THEN Str(o.proto.id)
  ELSE IF k = "constructor" THEN ObjectFunction
  ELSE Undefined

\* mutant of PropSet: an existing own property is kept, not overwritten
PropSetKeepsFirst(o, k, v) ==
  IF k = "__proto__" THEN [o EXCEPT !.proto = v]
  ELSE IF HasOwn(o, k) THEN o
  ELSE [o EXCEPT !.own[k] = v, !.order = Append(o.order, k)]

\* o[k] = v for an object v: the prototype accessor sets the prototype, any
\* other key creates or overwrites an own property
PropSet(o, k, v) ==
  IF k = "__proto__" THEN [o EXCEPT !.proto = v]
  ELSE [o EXCEPT !.own[k] = v,
                 !.order = IF HasOwn(o, k) THEN o.order ELSE Append(o.order, k)]

\* history: a set has stored a record under k (no operation deletes one)
IsStored(o, k) == IF k = "__proto__" THEN IsRecord(o.proto) ELSE HasOwn(o, k)

\* integer-like keys and their numeric value
IsIndex(k) == k \in {"1"}
IndexOf(k) == IF k = "1" THEN 1 ELSE 0

RECURSIVE SortedIndexKeys(_)
SortedIndexKeys(S) ==
  IF S = {} THEN <<>>
  ELSE LET k == CHOOSE x \in S : \A y \in S : IndexOf(x) <= IndexOf(y)
       IN <<k>> \o SortedIndexKeys(S \ {k})

\* own enumerable keys: integer-like keys ascending, then the others in
\* creation order
OwnKeys(o) ==
  SortedIndexKeys({o.order[i] : i \in {j \in 1..Len(o.order) : IsIndex(o.order[j])}})
    \o SelectSeq(o.order, LAMBDA k : ~IsIndex(k))

ObjectValues(o) == [i \in 1..Len(OwnKeys(o)) |-> o.own[OwnKeys(o)[i]]]

-----------------------------------------------------------------------------
(* Listeners.  A listener is a function value; the hub compares listeners  *)
(* by identity.  These are the functions callers register:                 *)
(*   "log"    logs the event                                               *)
(*   "unsub"  invokes the unsubscribe handles of itself and of "log" on    *)
(*            the hub that called it                                       *)
(*   "sub"    subscribes "log" to the hub that called it                   *)
(*   "write"  calls set(Written), unless the event is about Written        *)
(*   "throw"  throws                                                       *)

Listeners == {"log", "unsub", "sub", "write", "throw"}
Hubs == {"before", "after"}

\* the record the "write" listener stores
Written == [id |-> "a", attack |-> 3, defense |-> 10]

\* the record an event is about
EventRecord(hub, event) == IF hub = "before" THEN event.newValue ELSE event.value

-----------------------------------------------------------------------------------------------------------------------------------------------------
(* The machine state of one top-level call.  Arrays are objects on a heap: *)
(* push changes an array in place, filter makes a new one.  m.hubs[h] is   *)
(* the array the hub's `listeners` variable refers to.  An array element   *)
(* is [fn, reg]: the listener function and, as history, the number (on    *)
(* its hub) of the subscribe call that pushed it.  An unsubscribe closure  *)
(* is [hub, fn, reg]: it closes over the hub's variable and the listener;  *)
(* reg is history, the subscribe call that returned it.                    *)

Machine ==
  [db |-> db,
   heap |-> <<beforeAddListeners, afterAddListeners>>,
   hubs |-> [before |-> 1, after |-> 2],
   handles |-> handles,
   invoked |-> invoked,
   nextReg |-> nextReg,
   nextSet |-> 1,
   trace |-> <<>>,
   thrown |-> FALSE]

\* mutant of TrainerMachine: the two hubs are created once, outside
\* createDatabase, and every store publishes to them
TrainerMachineSharedHubs ==
  [db |-> other.db,
   heap |-> <<beforeAddListeners, afterAddListeners>>,
   hubs |-> [before |-> 1, after |-> 2],
   handles |-> other.handles,
   invoked |-> other.invoked,
   nextReg |-> other.nextReg,
   nextSet |-> 1,
   trace |-> <<>>,
   thrown |-> FALSE]

\* the machine state of a top-level call on the second store
TrainerMachine ==
  [db |-> other.db,
   heap |-> <<other.beforeAddListeners, other.afterAddListeners>>,
   hubs |-> [before |-> 1, after |-> 2],
   handles |-> other.handles,
   invoked |-> other.invoked,
   nextReg |-> other.nextReg,
   nextSet |-> 1,
   trace |-> <<>>,
   thrown |-> FALSE]

Log(m, entry) == [m EXCEPT !.trace = Append(@, entry)]

\* the array a hub's `listeners` variable refers to
ListenersOf(m, hub) == m.heap[m.hubs[hub]]

\* mutant of Push: the listener is put at the front (unshift)
PushFront(listeners, listener, reg) == <<[fn |-> listener, reg |-> reg]>> \o listeners

\* listeners.push(listener)
Push(listeners, listener, reg) == Append(listeners, [fn |-> listener, reg |-> reg])

\* createObserver().subscribe: push the listener and return the closure
subscribe(m, hub, listener) ==
  Log([m EXCEPT !.heap[m.hubs[hub]] = Push(@, listener, m.nextReg[hub]),
                !.handles = @ \cup {[hub |-> hub, fn |-> listener, reg |-> m.nextReg[hub]]},
                !.nextReg[hub] = @ + 1],
      [type |-> "subscribe", hub |-> hub, fn |-> listener, reg |-> m.nextReg[hub]])

\* mutant of FilterOut: listeners.splice(listeners.indexOf(listener), 1),
\* which removes the last element when the listener is not found
FilterOutSplice(listeners, listener) ==
  LET found == {i \in DOMAIN listeners : listeners[i].fn = listener}
      at == IF found = {} THEN Len(listeners)
            ELSE CHOOSE i \in found : \A j \in found : i <= j
  IN [i \in 1..(Len(listeners) - (IF listeners = <<>> THEN 0 ELSE 1)) |->
        IF i < at THEN listeners[i] ELSE listeners[i + 1]]

\* listeners.filter(l => l !== listener)
FilterOut(listeners, listener) == SelectSeq(listeners, LAMBDA l : l.fn # listener)

\* the closure h returned by subscribe: listeners = listeners.filter(...)
unsubscribe(m, h) ==
  Log([m EXCEPT !.heap = Append(@, FilterOut(ListenersOf(m, h.hub), h.fn)),
                !.hubs[h.hub] = Len(m.heap) + 1,
                !.invoked = @ \cup {h}],
      [type |-> "unsubscribe", hub |-> h.hub, fn |-> h.fn, reg |-> h.reg,
       again |-> h \in m.invoked,
       old |-> ListenersOf(m, h.hub),
       new |-> FilterOut(ListenersOf(m, h.hub), h.fn)])

RECURSIVE set(_, _)
RECURSIVE ForEach(_, _, _, _, _, _, _)

\* the closure the "unsub" listener holds for "log": the one of the first
\* subscribe call of "log" on its hub
LogHandles(m, hub) == {h \in m.handles : h.hub = hub /\ h.fn = "log"}
FirstLogHandle(m, hub) ==
  CHOOSE h \in LogHandles(m, hub) : \A g \in LogHandles(m, hub) : h.reg <= g.reg

\* the body of the listener function l.fn
Script(m, l, hub, event) ==
  CASE l.fn = "log" -> m
    [] l.fn = "unsub" ->
         unsubscribe(IF LogHandles(m, hub) = {} THEN m
                     ELSE unsubscribe(m, FirstLogHandle(m, hub)),
                     [hub |-> hub, fn |-> l.fn, reg |-> l.reg])
    [] l.fn = "sub" -> subscribe(m, hub, "log")
    [] l.fn = "write" ->
         IF EventRecord(hub, event) = Written THEN m ELSE set(m, Written)
    [] l.fn = "throw" -> [Log(m, [type |-> "throw", fn |-> l.fn]) EXCEPT !.thrown = TRUE]

\* l(event).  History: the call, what get of the event's id would return
\* when the listener starts, and whether the closure of this registration
\* had been invoked when the publish began (stale)
Invoke(m, l, hub, event, k, revoked) ==
  Script(Log(m, [type |-> "call", set |-> k, hub |-> hub, fn |-> l.fn, reg |-> l.reg,
                 event |-> event,
                 seen |-> PropGet(m.db, EventRecord(hub, event).id),
                 stale |-> [hub |-> hub, fn |-> l.fn, reg |-> l.reg] \in revoked]),
         l, hub, event)

\* mutant of ForEach: each call is wrapped in try/catch, so the loop goes on
\* after a listener has thrown
ForEachCatch(m, arr, i, len, hub, event, k) ==
  IF i > len THEN m
  ELSE ForEach(Invoke(m, m.heap[arr][i], hub, event, k[1], k[2]),
               arr, i + 1, len, hub, event, k)

\* mutant of ForEach: a for loop that reads the length of the array before
\* every element
ForEachLive(m, arr, i, len, hub, event, k) ==
  IF i > Len(m.heap[arr]) \/ m.thrown THEN m
  ELSE ForEach(Invoke(m, m.heap[arr][i], hub, event, k[1], k[2]),
               arr, i + 1, len, hub, event, k)

\* Array.prototype.forEach on the array object arr: the length is read
\* once, the elements are read from the array as the loop reaches them, and
\* an exception ends the loop
ForEach(m, arr, i, len, hub, event, k) ==
  IF i > len \/ m.thrown THEN m
  ELSE ForEach(Invoke(m, m.heap[arr][i], hub, event, k[1], k[2]),
               arr, i + 1, len, hub, event, k)

\* mutant of publish: the loop stops one listener early
publishAllButLast(m, hub, event, k) ==
  ForEach(Log(m, [type |-> "publish", set |-> k, hub |-> hub, event |-> event,
                  listeners |-> ListenersOf(m, hub)]),
          m.hubs[hub], 1, Len(ListenersOf(m, hub)) - 1, hub, event, <<k, m.invoked>>)

\* createObserver().publish
publish(m, hub, event, k) ==
  ForEach(Log(m, [type |-> "publish", set |-> k, hub |-> hub, event |-> event,
                  listeners |-> ListenersOf(m, hub)]),
          m.hubs[hub], 1, Len(ListenersOf(m, hub)), hub, event, <<k, m.invoked>>)

\* mutant of Store: the assignment is left out
StoreNothing(m, newValue) == m

\* this.db[newValue.id] = newValue
Store(m, newValue) == [m EXCEPT !.db = PropSet(m.db, newValue.id, newValue)]

\* mutant of BeforeSetEvent: the previous value is not looked up
BeforeSetEventNoLookup(m, newValue) == [newValue |-> newValue, value |-> Undefined]

\* the event objects set builds
BeforeSetEvent(m, newValue) == [newValue |-> newValue, value |-> PropGet(m.db, newValue.id)]

AfterSetEvent(newValue) == [value |-> newValue]

\* mutant of PublishBefore: the record is stored before the before-write
\* event is published
PublishBeforeAfterStore(m, newValue, k) ==
  publish(Store(m, newValue), "before", BeforeSetEvent(m, newValue), k)

\* this.beforeAddListeners.publish({newValue, value: this.db[newValue.id]})
PublishBefore(m, newValue, k) == publish(m, "before", BeforeSetEvent(m, newValue), k)

\* mutant of set: the record is stored in a finally block, also when a
\* before-write listener has thrown
setFinally(m, newValue) ==
  LET k == m.nextSet
      m0 == Log([m EXCEPT !.nextSet = k + 1],
                [type |-> "begin", set |-> k, newValue |-> newValue,
                 had |-> IsStored(m.db, newValue.id),
                 prev |-> PropGet(m.db, newValue.id),
                 after |-> ListenersOf(m, "after")])
      m1 == PublishBefore(m0, newValue, k)
      m2 == Log(Store(m1, newValue),
                [type |-> "write", set |-> k, newValue |-> newValue,
                 replaced |-> PropGet(m1.db, newValue.id)])
      m3 == publish(m2, "after", AfterSetEvent(newValue), k)
  IN IF m1.thrown THEN Store(m1, newValue)
     ELSE IF m3.thrown THEN m3
     ELSE Log(m3, [type |-> "return", set |-> k, newValue |-> newValue,
                   got |-> PropGet(m3.db, newValue.id)])

\* InMemoryDatabase.set; k numbers the set calls of one top-level call
set(m, newValue) ==
  LET k == m.nextSet
      m0 == Log([m EXCEPT !.nextSet = k + 1],
                [type |-> "begin", set |-> k, newValue |-> newValue,
                 had |-> IsStored(m.db, newValue.id),
                 prev |-> PropGet(m.db, newValue.id),
                 after |-> ListenersOf(m, "after")])
      m1 == PublishBefore(m0, newValue, k)
      m2 == Log(Store(m1, newValue),
                [type |-> "write", set |-> k, newValue |-> newValue,
                 replaced |-> PropGet(m1.db, newValue.id)])
      m3 == publish(m2, "after", AfterSetEvent(newValue), k)
  IN IF m1.thrown THEN m1
     ELSE IF m3.thrown THEN m3
     ELSE Log(m3, [type |-> "return", set |-> k, newValue |-> newValue,
                   got |-> PropGet(m3.db, newValue.id)])

\* InMemoryDatabase.get
get(o, id) == PropGet(o, id)

\* mutant of PlainSet: a record is stored only under an id that has none
PlainSetKeepsFirst(o, newValue) == PropSetKeepsFirst(o, newValue.id, newValue)

\* set and get of the variant without hubs
PlainSet(o, newValue) == PropSet(o, newValue.id, newValue)
PlainGet(o, id) == PropGet(o, id)

\* InMemoryDatabase.visit with a visitor that collects the items
visit(o) == ObjectValues(o)

\* caller-supplied score functions
Strategies == {"attack", "defense"}
Score(scoreStrategy, item) == IF scoreStrategy = "attack" THEN item.attack ELSE item.defense

\* the reduce callback of selectBest
Better(f, item, scoreStrategy) ==
  IF Score(scoreStrategy, item) > f.max
  THEN [max |-> Score(scoreStrategy, item), item |-> item]
  ELSE f

RECURSIVE Reduce(_, _, _, _)
Reduce(values, i, f, scoreStrategy) ==
  IF i > Len(values) THEN f
  ELSE Reduce(values, i + 1, Better(f, values[i], scoreStrategy), scoreStrategy)

\* InMemoryDatabase.selectBest
selectBest(o, scoreStrategy) ==
  Reduce(ObjectValues(o), 1, [max |-> 0, item |-> Undefined], scoreStrategy).item

-----------------------------------------------------------------------------
(* The top-level calls *)

Init ==
  /\ db = EmptyObject
  /\ beforeAddListeners = <<>>
  /\ afterAddListeners = <<>>
  /\ handles = {}
  /\ invoked = {}
  /\ nextReg = [before |-> 1, after |-> 1]
  /\ trace = <<>>
  /\ last = [op |-> "new", arg |-> Undefined, result |-> Undefined, threw |-> FALSE]
  /\ scope \in Scopes
  /\ other = [db |-> EmptyObject, beforeAddListeners |-> <<>>, afterAddListeners |-> <<>>,
              handles |-> {}, invoked |-> {}, nextReg |-> [before |-> 1, after |-> 1]]
  /\ plain = EmptyObject

\* the subscribe calls made on a store
Subs(reg) == (reg.before - 1) + (reg.after - 1)

\* the state a top-level call leaves; the arrays no variable refers to any
\* more are garbage
Finish(m, op, arg, result) ==
  /\ Subs(m.nextReg) + Subs(other.nextReg) <= MaxSubs
  /\ db' = m.db
  /\ beforeAddListeners' = m.heap[m.hubs.before]
  /\ afterAddListeners' = m.heap[m.hubs.after]
  /\ handles' = m.handles
  /\ invoked' = m.invoked
  /\ nextReg' = m.nextReg
  /\ trace' = m.trace
  /\ last' = [op |-> op, arg |-> arg, result |-> result, threw |-> m.thrown]
  /\ scope' = scope
  /\ other' = other
  /\ plain' = IF op = "set" THEN PlainSet(plain, arg) ELSE plain

\* the state a top-level call on the second store leaves
FinishTrainer(m, op, arg, result) ==
  /\ Subs(m.nextReg) + Subs(nextReg) <= MaxSubs
  /\ other' = [db |-> m.db,
               beforeAddListeners |-> m.heap[m.hubs.before],
               afterAddListeners |-> m.heap[m.hubs.after],
               handles |-> m.handles,
               invoked |-> m.invoked,
               nextReg |-> m.nextReg]
  /\ trace' = m.trace
  /\ last' = [op |-> op, arg |-> arg, result |-> result, threw |-> m.thrown]
  /\ UNCHANGED <<db, beforeAddListeners, afterAddListeners, handles, invoked, nextReg, scope>>
  /\ plain' = plain

CallSet(newValue) == Finish(set(Machine, newValue), "set", newValue, Undefined)

CallGet(id) == Finish(Machine, "get", Str(id), get(db, id))

CallOnBeforeAdd(listener) ==
  Finish(subscribe(Machine, "before", listener), "onBeforeAdd", Str(listener),
         [hub |-> "before", fn |-> listener, reg |-> nextReg.before])

\* mutant of CallOnAfterAdd: it subscribes to the before hub
CallOnAfterAddToBeforeHub(listener) ==
  Finish(subscribe(Machine, "before", listener), "onAfterAdd", Str(listener),
         [hub |-> "before", fn |-> listener, reg |-> nextReg.before])

CallOnAfterAdd(listener) ==
  Finish(subscribe(Machine, "after", listener), "onAfterAdd", Str(listener),
         [hub |-> "after", fn |-> listener, reg |-> nextReg.after])

CallUnsubscribe(h) == Finish(unsubscribe(Machine, h), "unsubscribe", h, Undefined)

\* mutant of CallVisit: visit announces every record it visits on the
\* after-write hub
RECURSIVE PublishAll(_, _, _)
PublishAll(m, values, i) ==
  IF i > Len(values) THEN m
  ELSE PublishAll(publish(m, "after", AfterSetEvent(values[i]), 0), values, i + 1)
CallVisitNotifying == Finish(PublishAll(Machine, visit(db), 1), "visit", Undefined, visit(db))

CallVisit == Finish(Machine, "visit", Undefined, visit(db))

CallSelectBest(scoreStrategy) ==
  Finish(Machine, "selectBest", Str(scoreStrategy), selectBest(db, scoreStrategy))

\* the same calls on the instance of the second createDatabase() result
CallTrainerSet(newValue) ==
  FinishTrainer(set(TrainerMachine, newValue), "trainerDB.set", newValue, Undefined)

CallTrainerGet(id) == FinishTrainer(TrainerMachine, "trainerDB.get", Str(id), get(other.db, id))

CallTrainerOnBeforeAdd(listener) ==
  FinishTrainer(subscribe(TrainerMachine, "before", listener), "trainerDB.onBeforeAdd",
                Str(listener), [hub |-> "before", fn |-> listener, reg |-> other.nextReg.before])

CallTrainerOnAfterAdd(listener) ==
  FinishTrainer(subscribe(TrainerMachine, "after", listener), "trainerDB.onAfterAdd",
                Str(listener), [hub |-> "after", fn |-> listener, reg |-> other.nextReg.after])

Next ==
  \/ \E newValue \in ScopeRecords(scope) : CallSet(newValue)
  \/ \E id \in ScopeKeys(scope) : CallGet(id)
  \/ \E listener \in ScopeListeners(scope) : CallOnBeforeAdd(listener)
  \/ \E listener \in ScopeListeners(scope) : CallOnAfterAdd(listener)
  \/ \E h \in handles : CallUnsubscribe(h)
  \/ CallVisit
  \/ \E scoreStrategy \in Strategies : CallSelectBest(scoreStrategy)
  \/ \E newValue \in ScopeTrainers(scope) : CallTrainerSet(newValue)
  \/ \E id \in ScopeTrainerKeys(scope) : CallTrainerGet(id)
  \/ \E listener \in ScopeTrainerListeners(scope) : CallTrainerOnBeforeAdd(listener)
  \/ \E listener \in ScopeTrainerListeners(scope) : CallTrainerOnAfterAdd(listener)

Spec == Init /\ [][Next]_vars

-----------------------------------------------------------------------------
(* Reading the history *)

\* the positions of the history entries of one type
At(type) == {i \in DOMAIN trace : trace[i].type = type}

\* set k of the last top-level call reached the given step
BeginOf(k) == CHOOSE i \in At("begin") : trace[i].set = k
Wrote(k) == \E i \in At("write") : trace[i].set = k
WriteOf(k) == CHOOSE i \in At("write") : trace[i].set = k
Returned(k) == \E i \in At("return") : trace[i].set = k
ReturnOf(k) == CHOOSE i \in At("return") : trace[i].set = k

\* between positions i and j a set other than k stored a record under id
WrittenBetween(id, k, i, j) ==
  \E w \in At("write") :
    i < w /\ w < j /\ trace[w].set # k /\ trace[w].newValue.id = id

\* everything a caller can read from the store
Range(seq) == {seq[i] : i \in DOMAIN seq}
Reachable(o) ==
  {get(o, k) : k \in Keys} \cup Range(visit(o)) \cup {selectBest(o, st) : st \in Strategies}
RecordsWithId(o, id) == {v \in Reachable(o) : IsRecord(v) /\ v.id = id}

-----------------------------------------------------------------------------
(* C1 *)

\* C1 as stated: whenever a set(r) has returned, top-level or called by a
\* listener, get(r.id) returns r at that moment.
C1_WriteThenRead ==
  \A i \in At("return") : trace[i].got = trace[i].newValue

\* C1 amended: whenever a set(r) has returned, get(r.id) returns r, unless a
\* listener called by that set stored a record under r.id after r was
\* stored.
C1_WriteThenReadUnlessRewritten ==
  \A i \in At("return") :
    \/ trace[i].got = trace[i].newValue
    \/ WrittenBetween(trace[i].newValue.id, trace[i].set, WriteOf(trace[i].set), i)

\* a set called while an after-write listener is registered has returned and
\* get returns its record
C1_Witness ==
  /\ last.op = "set" /\ ~last.threw
  /\ \E c \in At("call") : trace[c].hub = "after" /\ trace[c].set = 1
  /\ trace[ReturnOf(1)].got = last.arg
  /\ get(db, last.arg.id) = last.arg

-----------------------------------------------------------------------------
(* C2 *)

\* the record stored under the id of the last top-level set when it was called
Replaced == trace[BeginOf(1)].prev
Overwrote == last.op = "set" /\ ~last.threw /\ trace[BeginOf(1)].had

\* C2 as stated: after set(r1); set(r2) with the same id the store holds at
\* most one record for the id, get(id) is r2, and r1 (when it differs from
\* r2) is not returned by get, visit or selectBest.
C2_Overwrite ==
  Overwrote =>
    /\ Cardinality(RecordsWithId(db, last.arg.id)) <= 1
    /\ get(db, last.arg.id) = last.arg
    /\ Replaced # last.arg => Replaced \notin Reachable(db)

\* C2 amended: after set(r1); set(r2) with the same id the store holds at
\* most one record for the id; and unless a listener called by set(r2)
\* stored a record under the id after r2 was stored, get(id) is r2 and r1 is
\* not returned by get, visit or selectBest.
C2_OverwriteUnlessRewritten ==
  Overwrote =>
    /\ Cardinality(RecordsWithId(db, last.arg.id)) <= 1
    /\ \/ WrittenBetween(last.arg.id, 1, WriteOf(1), ReturnOf(1))
       \/ /\ get(db, last.arg.id) = last.arg
          /\ Replaced # last.arg => Replaced \notin Reachable(db)

\* a set has replaced a different record with the same id
C2_Witness ==
  /\ Overwrote
  /\ Replaced # last.arg
  /\ get(db, last.arg.id) = last.arg
  /\ Replaced \notin Reachable(db)

-----------------------------------------------------------------------------
(* C3 *)

\* C3 as stated: get(id) returns the absent value for every id that no set
\* has written.
C3_NotFound ==
  last.op = "get" => (IsStored(db, last.arg.string) \/ last.result = Undefined)

-----------------------------------------------------------------------------
(* C4 *)

\* C4 as stated: every before-write listener called by a set(r) receives an
\* event whose new value is r and whose previous value is the record stored
\* under r.id when set was called, or absent if the id was never written.
C4_BeforeEventPayload ==
  \A c \in At("call") :
    trace[c].hub = "before" =>
      LET b == trace[BeginOf(trace[c].set)]
      IN /\ trace[c].event.newValue = b.newValue
         /\ trace[c].event.value = IF b.had THEN b.prev ELSE Undefined

-----------------------------------------------------------------------------
(* C5 *)

\* the set calls of the last top-level call
Sets == {trace[i].set : i \in At("begin")}

\* the listener calls publish made for set k on a hub, in order
CallSeq(k, hub) ==
  SelectSeq(trace, LAMBDA e : e.type = "call" /\ e.set = k /\ e.hub = hub)

\* how often a listener function occurs in an array / in a sequence of calls
Count(seq, fn) == Cardinality({i \in DOMAIN seq : seq[i].fn = fn})

\* the closure of fn on the after hub was invoked after set k was called
UnsubscribedSince(k, fn) ==
  \E u \in At("unsubscribe") :
    u > BeginOf(k) /\ trace[u].hub = "after" /\ trace[u].fn = fn

\* fn was called exactly once for the after-write event of set k, with the
\* record of set k
CalledOnceWithValue(k, fn) ==
  /\ Count(CallSeq(k, "after"), fn) = 1
  /\ \A i \in DOMAIN CallSeq(k, "after") :
       CallSeq(k, "after")[i].fn = fn =>
         CallSeq(k, "after")[i].event = [value |-> trace[BeginOf(k)].newValue]

AfterPublishOf(k) ==
  CHOOSE i \in At("publish") : trace[i].set = k /\ trace[i].hub = "after"

-----------------------------------------------------------------------------
(* C6 *)

\* the steps of set k are in order: its before-write calls, the mutation,
\* its after-write calls
StepsInOrder(k) ==
  \A c \in At("call") :
    trace[c].set = k =>
      IF trace[c].hub = "before" THEN Wrote(k) => c < WriteOf(k)
      ELSE Wrote(k) /\ WriteOf(k) < c

\* C6 as stated: every set(r) publishes the before-write event, applies the
\* mutation, then publishes the after-write event; get(r.id) inside a
\* before-write listener returns what it returned before the call, inside
\* an after-write listener it returns r.
C6_WriteOrdering ==
  \A k \in Sets :
    /\ StepsInOrder(k)
    /\ \A c \in At("call") :
         trace[c].set = k =>
           IF trace[c].hub = "before" THEN trace[c].seen = trace[BeginOf(k)].prev
           ELSE trace[c].seen = trace[BeginOf(k)].newValue

\* C6 amended: the steps are in that order; get(r.id) inside a before-write
\* listener returns what it returned before the call, and inside an
\* after-write listener r, unless a listener that ran earlier during the
\* same set has itself stored a record under r.id.
C6_WriteOrderingUnlessRewritten ==
  \A k \in Sets :
    /\ StepsInOrder(k)
    /\ \A c \in At("call") :
         trace[c].set = k =>
           IF trace[c].hub = "before"
           THEN \/ trace[c].seen = trace[BeginOf(k)].prev
                \/ WrittenBetween(trace[BeginOf(k)].newValue.id, k, BeginOf(k), c)
           ELSE \/ trace[c].seen = trace[BeginOf(k)].newValue
                \/ WrittenBetween(trace[BeginOf(k)].newValue.id, k, WriteOf(k), c)

\* a set that replaces a record has called a before-write listener, which
\* saw the old record, and an after-write listener, which saw the new one
C6_Witness ==
  /\ last.op = "set" /\ ~last.threw
  /\ trace[BeginOf(1)].had
  /\ trace[BeginOf(1)].prev # last.arg
  /\ \E c \in At("call") :
       trace[c].set = 1 /\ trace[c].hub = "before" /\ trace[c].seen = trace[BeginOf(1)].prev
  /\ \E c \in At("call") :
       trace[c].set = 1 /\ trace[c].hub = "after" /\ trace[c].seen = last.arg

-----------------------------------------------------------------------------
(* C7 *)

\* no publish calls a registration whose unsubscribe handle had been invoked
\* when the publish started
NoStaleCall == \A c \in At("call") : ~trace[c].stale

\* the top-level call is an invocation of the handle that the call before
\* it invoked
InvokedAgain ==
  /\ last.op = "unsubscribe"
  /\ last'.op = "unsubscribe"
  /\ last'.arg = last.arg

-----------------------------------------------------------------------------
(* C8 *)

\* C8 as stated: invoking an unsubscribe handle removes the registration
\* made by the subscribe call that returned it and leaves every other
\* registration of the hub in place and in order.
C8_RemovesOneRegistration ==
  \A u \in At("unsubscribe") :
    trace[u].new = SelectSeq(trace[u].old, LAMBDA l : l.reg # trace[u].reg)

-----------------------------------------------------------------------------
(* C9 *)

\* the registrations a sequence of calls went to
Targets(calls) == [i \in DOMAIN calls |-> [fn |-> calls[i].fn, reg |-> calls[i].reg]]

\* the listeners of a publish are in the order of their subscribe calls
InSubscriptionOrder(listeners) ==
  \A i, j \in DOMAIN listeners : i < j => listeners[i].reg < listeners[j].reg

\* the calls of the publish at position p are made before set goes on
Synchronous(p) ==
  \A c \in At("call") :
    (trace[c].set = trace[p].set /\ trace[c].hub = trace[p].hub) =>
      /\ p < c
      /\ \A i \in At("write") \cup At("return") :
           (trace[i].set = trace[p].set /\ p < i) => c < i

-----------------------------------------------------------------------------
(* C10 *)

\* the records the store holds: those get returns for their id
StoredRecords(o) == {get(o, k) : k \in {i \in Ids : IsStored(o, i)}}

MaxScore(S, scoreStrategy) ==
  CHOOSE x \in {Score(scoreStrategy, r) : r \in S} :
    \A r \in S : Score(scoreStrategy, r) <= x

\* the first record in scan order with the given score
FirstScoring(o, scoreStrategy, x) ==
  ObjectValues(o)[CHOOSE i \in DOMAIN ObjectValues(o) :
                    /\ Score(scoreStrategy, ObjectValues(o)[i]) = x
                    /\ \A j \in 1..(i - 1) : Score(scoreStrategy, ObjectValues(o)[j]) # x]

\* C10 as stated: selectBest returns absent when no stored record scores
\* above zero, and otherwise the first record in scan order whose score is
\* the maximum over the stored records.
C10_SelectBest ==
  last.op = "selectBest" =>
    LET st == last.arg.string
        S == StoredRecords(db)
    IN IF \A r \in S : Score(st, r) <= 0
       THEN last.result = Undefined
       ELSE /\ last.result \in S
            /\ Score(st, last.result) = MaxScore(S, st)
            /\ last.result = FirstScoring(db, st, MaxScore(S, st))

-----------------------------------------------------------------------------
(* C11 *)

\* history: the identifiers a set has stored a record under, and the record
\* most recently stored under one of them
WrittenIds(o) == {k \in Ids : IsStored(o, k)}
LastWritten(o, k) == IF k = "__proto__" THEN o.proto ELSE o.own[k]

\* C11 as stated: visit calls the visitor exactly once for each identifier
\* that has been written, with the record most recently written under it,
\* and for nothing else.
C11_Visit ==
  last.op = "visit" =>
    /\ Len(last.result) = Cardinality(WrittenIds(db))
    /\ \A k \in WrittenIds(db) :
         \E i \in DOMAIN last.result : last.result[i] = LastWritten(db, k)

-----------------------------------------------------------------------------
(* C12 *)

\* the publish for set k on a hub
PublishOf(k, hub) ==
  CHOOSE i \in At("publish") : trace[i].set = k /\ trace[i].hub = hub

\* C12: when a listener throws, the top-level call ends with that exception
\* and nothing more happens in it: no set in progress stores, publishes or
\* returns, and the publish that called the listener calls none of the
\* listeners registered after it.
C12_ThrowPropagates ==
  \A t \in At("throw") :
    /\ last.threw
    /\ t = Len(trace)
    /\ trace[t - 1].type = "call" /\ trace[t - 1].fn = trace[t].fn
    /\ LET c == trace[t - 1]
           calls == CallSeq(c.set, c.hub)
       IN /\ calls[Len(calls)] = c
          /\ Targets(calls) = SubSeq(trace[PublishOf(c.set, c.hub)].listeners, 1, Len(calls))

\* a listener has thrown in a publish that had another listener after it
C12_Witness ==
  /\ last.op = "set" /\ last.threw
  /\ \E t \in At("throw") :
       LET c == trace[t - 1]
           p == trace[PublishOf(c.set, c.hub)]
       IN /\ Len(p.listeners) = 2
          /\ p.listeners[1].fn = "throw"
          /\ p.listeners[2].fn # "throw"
          /\ Len(CallSeq(c.set, c.hub)) = 1

-----------------------------------------------------------------------------
(* C13 *)

Reads == {"get", "visit", "selectBest"}

\* C13: a get, visit or selectBest publishes no event and calls no listener,
\* and leaves the stored records and the listeners of both hubs as they
\* were.
C13_ReadsHaveNoEffect ==
  [][last'.op \in Reads =>
       /\ trace' = <<>>
       /\ db' = db
       /\ beforeAddListeners' = beforeAddListeners
       /\ afterAddListeners' = afterAddListeners]_vars

\* visit has visited a record while a listener was registered on each hub,
\* and nothing was published
C13_Witness ==
  /\ last.op = "visit"
  /\ Len(last.result) >= 1
  /\ beforeAddListeners # <<>> /\ afterAddListeners # <<>>
  /\ trace = <<>>

-----------------------------------------------------------------------------
(* C14 *)

PokemonOps == {"set", "get", "onBeforeAdd", "onAfterAdd", "unsubscribe", "visit", "selectBest"}
TrainerOps == {"trainerDB.set", "trainerDB.get", "trainerDB.onBeforeAdd", "trainerDB.onAfterAdd"}

\* the listeners the first set of the last top-level call published to
\* (it publishes no after-write event when a before-write listener throws)
HasPublished(hub) == \E i \in At("publish") : trace[i].set = 1 /\ trace[i].hub = hub
Published(hub) == trace[PublishOf(1, hub)].listeners

\* what get returns on a store for every key
GetResults(o) == [k \in Keys |-> get(o, k)]

\* C14: every call through pokemonDB.instance acts on the store the earlier
\* calls left (a get returns what was written, a set publishes to the
\* listeners registered); and a call on one of two createDatabase() results
\* changes no get result and no listener array of the other and calls none
\* of its listeners.
C14_Singleton ==
  [][/\ last'.op = "get" => last'.result = get(db, last'.arg.string)
     /\ last'.op = "set" =>
          /\ Published("before")' = beforeAddListeners
          /\ HasPublished("after")' => Published("after")' = afterAddListeners
     /\ last'.op \in PokemonOps => other' = other
     /\ last'.op = "trainerDB.get" => last'.result = get(other.db, last'.arg.string)
     /\ last'.op = "trainerDB.set" =>
          /\ Published("before")' = other.beforeAddListeners
          /\ HasPublished("after")' => Published("after")' = other.afterAddListeners
     /\ last'.op \in TrainerOps =>
          /\ GetResults(db') = GetResults(db)
          /\ beforeAddListeners' = beforeAddListeners
          /\ afterAddListeners' = afterAddListeners]_vars

\* a set on the second store has called its listener and not the listener
\* of the first store, which holds a record under the same id
C14_Witness ==
  /\ last.op = "trainerDB.set" /\ ~last.threw
  /\ Len(afterAddListeners) = 1
  /\ other.afterAddListeners = <<>> /\ Len(other.beforeAddListeners) = 1
  /\ IsRecord(get(db, "a"))
  /\ get(other.db, "a") = last.arg
  /\ Count(CallSeq(1, "before"), "log") = 1
  /\ CallSeq(1, "after") = <<>>

-----------------------------------------------------------------------------
(* C15 *)

\* the hub an event object belongs to, by its fields
HubOfEvent(event) == IF "newValue" \in DOMAIN event THEN "before" ELSE "after"

\* every listener call of the last set went to a registration made on the
\* hub whose event it received
CallsMatchHubs ==
  \A c \in At("call") :
    /\ HubOfEvent(trace[c].event) = trace[c].hub
    /\ [hub |-> trace[c].hub, fn |-> trace[c].fn, reg |-> trace[c].reg] \in handles

\* the hubs subscribed to or unsubscribed from during the last top-level call
HubsChanged == {trace[i].hub : i \in At("subscribe") \cup At("unsubscribe")}

\* C15: onBeforeAdd registers on the before hub only and onAfterAdd on the
\* after hub only; a listener is called only with events of the hub it was
\* registered on; and invoking a handle, at top level or from a listener,
\* leaves the listeners of the other hub unchanged.
C15_SeparateHubs ==
  /\ [](last.op = "set" => CallsMatchHubs)
  /\ [][/\ last'.op = "onBeforeAdd" =>
           /\ beforeAddListeners' =
                Append(beforeAddListeners, [fn |-> last'.arg.string, reg |-> nextReg.before])
           /\ afterAddListeners' = afterAddListeners
        /\ last'.op = "onAfterAdd" =>
           /\ afterAddListeners' =
                Append(afterAddListeners, [fn |-> last'.arg.string, reg |-> nextReg.after])
           /\ beforeAddListeners' = beforeAddListeners
        /\ last'.op \in {"set", "unsubscribe"} =>
           /\ "before" \notin HubsChanged' => beforeAddListeners' = beforeAddListeners
           /\ "after" \notin HubsChanged' => afterAddListeners' = afterAddListeners]_vars

\* a set has called one listener with the before-write event and a different
\* one with the after-write event, and the first has invoked its handle,
\* which left the after hub as it was
C15_Witness ==
  /\ last.op = "set" /\ ~last.threw
  /\ Targets(CallSeq(1, "before")) = <<[fn |-> "unsub", reg |-> 1]>>
  /\ Targets(CallSeq(1, "after")) = <<[fn |-> "log", reg |-> 1]>>
  /\ HubsChanged = {"before"}
  /\ beforeAddListeners = <<>>
  /\ afterAddListeners = <<[fn |-> "log", reg |-> 1]>>

-----------------------------------------------------------------------------
(* C16 *)

ListenersNow(hub) == IF hub = "before" THEN beforeAddListeners ELSE afterAddListeners

\* the registration made by the subscribe call at position s has since been
\* removed by a handle
RemovedSince(s) ==
  \E u \in At("unsubscribe") :
    u > s /\ trace[u].hub = trace[s].hub /\ trace[u].fn = trace[s].fn

\* C16: when no listener throws, a publish calls exactly the registrations
\* its hub held when it started, in their order, whatever the listeners
\* subscribe or unsubscribe meanwhile, and the call completes without error;
\* a registration made during the call is in the hub when the call ends, for
\* the next publish, unless a handle has removed it.
C16_SnapshotDelivery ==
  (last.op \in PokemonOps /\ At("throw") = {}) =>
    /\ ~last.threw
    /\ \A p \in At("publish") :
         Targets(CallSeq(trace[p].set, trace[p].hub)) = trace[p].listeners
    /\ \A s \in At("subscribe") :
         \/ RemovedSince(s)
         \/ \E i \in DOMAIN ListenersNow(trace[s].hub) :
              ListenersNow(trace[s].hub)[i] = [fn |-> trace[s].fn, reg |-> trace[s].reg]

\* a listener has removed itself and the listener after it during a
\* publish, which still called that listener
C16_Witness ==
  /\ last.op = "set" /\ ~last.threw
  /\ Targets(CallSeq(1, "after")) = <<[fn |-> "unsub", reg |-> 1], [fn |-> "log", reg |-> 2]>>
  /\ \E u \in At("unsubscribe") : trace[u].fn = "log" /\ trace[u].new = <<[fn |-> "unsub", reg |-> 1]>>
  /\ afterAddListeners = <<>>

-----------------------------------------------------------------------------
(* C17 *)

\* the sets an exception has ended, and for each the listener call that
\* was in progress
Aborted == {k \in Sets : last.threw /\ ~Returned(k)}
CallInProgress(k) ==
  CHOOSE c \in At("call") :
    trace[c].set = k /\ \A d \in At("call") : trace[d].set = k => d <= c
ThrewIn(k) == trace[CallInProgress(k)].hub

\* a record has been stored since position i of the history
StoredSince(i) == \E w \in At("write") : w > i

-----------------------------------------------------------------------------
(* C18 *)

BeforeCalls == {c \in At("call") : trace[c].hub = "before"}

\* C18 as stated: for every set(r), nested ones included, the previous value
\* of the before-write event is, when a before-write listener receives it,
\* what is stored under r.id, and it is what the mutation then replaces.
C18_PreviousValueCurrent ==
  \A c \in BeforeCalls :
    /\ trace[c].event.value = trace[c].seen
    /\ Wrote(trace[c].set) => trace[c].event.value = trace[WriteOf(trace[c].set)].replaced

\* C18 amended: the previous value is what was stored under r.id when the
\* set was called; it is what is stored when a before-write listener
\* receives it, and what the mutation replaces, unless a listener called by
\* that set has stored a record under r.id in between.
C18_PreviousValueUnlessRewritten ==
  \A c \in BeforeCalls :
    LET k == trace[c].set
        id == trace[BeginOf(k)].newValue.id
    IN /\ trace[c].event.value = trace[BeginOf(k)].prev
       /\ \/ trace[c].event.value = trace[c].seen
          \/ WrittenBetween(id, k, BeginOf(k), c)
       /\ Wrote(k) =>
            \/ trace[c].event.value = trace[WriteOf(k)].replaced
            \/ WrittenBetween(id, k, BeginOf(k), WriteOf(k))

\* a set called by a listener during another set has replaced a record, and
\* its before-write listener had received that record as previous value
C18_Witness ==
  /\ last.op = "set" /\ ~last.threw
  /\ \E c \in BeforeCalls :
       /\ trace[c].set = 2
       /\ IsRecord(trace[c].event.value)
       /\ trace[c].event.value # trace[c].event.newValue
       /\ Wrote(2)
       /\ trace[c].event.value = trace[WriteOf(2)].replaced

-----------------------------------------------------------------------------
(* C19 *)

\* no listener that writes to the store or throws has been registered
ListenersAreQuiet == \A h \in handles : h.fn \notin {"write", "throw"}

\* C19: given the same set and get calls, and listeners that neither write
\* to the store nor throw, the variant without hubs and the variant with
\* hubs hold the same records under the same ids after every call and
\* return the same result for every get.
C19_VariantsAgree ==
  ListenersAreQuiet =>
    /\ plain = db
    /\ \A k \in Keys : PlainGet(plain, k) = get(db, k)
    /\ last.op = "get" => last.result = PlainGet(plain, last.arg.string)

\* a set that called listeners on both hubs has replaced a record in both
\* variants
C19_Witness ==
  /\ last.op = "set" /\ ~last.threw
  /\ ListenersAreQuiet
  /\ CallSeq(1, "before") # <<>> /\ CallSeq(1, "after") # <<>>
  /\ trace[BeginOf(1)].had
  /\ trace[BeginOf(1)].prev # last.arg
  /\ PlainGet(plain, last.arg.id) = last.arg
  /\ get(db, last.arg.id) = last.arg

====
